---- MODULE Spec2Model ----
(***************************************************************************)
(* Model of the nadlan proxy (src/app.py): a Flask application whose       *)
(* handlers forward browser requests to nadlan.gov.il and data.gov.il.     *)
(* Each worker thread handles one request at a time; a handler blocks      *)
(* while an upstream HTTP call is in flight, which is where requests       *)
(* handled by other threads interleave.                                    *)
(***************************************************************************)
EXTENDS Integers, Sequences, FiniteSets, TLC

VARIABLES
    pc,       \* pc[t]: where thread t's handler is
    req,      \* req[t]: the request thread t is handling
    attempt,  \* attempt[t]: nadlan_post's loop variable
    calls,    \* calls[t]: upstream responses received while handling req[t]
    slept,    \* slept[t]: the time.sleep durations (ms) while handling req[t]
    resp,     \* resp[t]: the response the handler returned
    session   \* SESSION.headers

vars == <<pc, req, attempt, calls, slept, resp, session>>

\* ---------------------------------------------------------------- bounds
MaxQLen    == 2     \* longest q query parameter
MaxRecords == 2     \* most records in a data.gov.il response
NumThreads == 2     \* worker threads of the server

\* ------------------------------------------------------ program constants
Retries   == 3      \* nadlan_post(..., retries=3)
BackoffMs == 1500   \* time.sleep(1.5 * (attempt + 1)), in milliseconds
MinQLen   == 2      \* if len(q) < 2

Threads == 1..NumThreads

SeqsUpTo(S, n) == UNION {[1..k -> S] : k \in 0..n}

\* ------------------------------------------------------------- session
HEADERS ==
    [Accept         |-> "application/json, text/plain, */*",
     AcceptLanguage |-> "he-IL,he;q=0.9,en-US;q=0.8",
     ContentType    |-> "application/json;charset=UTF-8",
     Origin         |-> "https://www.nadlan.gov.il",
     Referer        |-> "https://www.nadlan.gov.il/",
     UserAgent      |-> "Mozilla/5.0 ... Chrome/120.0.0.0 Safari/537.36"]

\* ------------------------------------------------------- query strings
\* A string is a sequence of characters; " " is the whitespace character.
Chars == {"a", " "}

RECURSIVE LStrip(_)
LStrip(s) == IF s # <<>> /\ Head(s) = " " THEN LStrip(Tail(s)) ELSE s

RECURSIVE RStrip(_)
RStrip(s) ==
    IF s # <<>> /\ s[Len(s)] = " " THEN RStrip(SubSeq(s, 1, Len(s) - 1)) ELSE s

\* str.strip()
Strip(s) == RStrip(LStrip(s))

\* A query parameter: given with a value, or not given.
ArgAbsent == [present |-> FALSE, val |-> <<>>]

Arg(s) == [present |-> TRUE, val |-> s]

QArgs == {ArgAbsent} \cup {Arg(s) : s \in SeqsUpTo(Chars, MaxQLen)}

CityCodeArgs == {ArgAbsent, Arg(<<"a">>)}

\* request.args.get(name, default)
ArgsGet(a, default) == IF a.present THEN a.val ELSE default

\* ----------------------------------------------------------- JSON values
JAbsent == [t |-> "absent"]

JStr(s) == [t |-> "str", s |-> s]

JNum(n) == [t |-> "num", n |-> n]

\* Python truthiness of body.get(k): None, "" and 0 are falsy.
Truthy(v) ==
    CASE v.t = "absent" -> FALSE
      [] v.t = "str"    -> v.s # <<>>
      [] v.t = "num"    -> v.n # 0

Digits == <<"0", "1", "2", "3", "4", "5", "6", "7", "8", "9">>

IsDigit(c) == \E i \in 1..Len(Digits) : Digits[i] = c

DigitVal(c) == (CHOOSE i \in 1..Len(Digits) : Digits[i] = c) - 1

RECURSIVE ParseDigits(_, _)
ParseDigits(s, acc) ==
    IF s = <<>> THEN acc ELSE ParseDigits(Tail(s), 10 * acc + DigitVal(Head(s)))

\* int(body.get(key, default)): the value, or the exception int() raises.
PyInt(v, default) ==
    CASE v.t = "absent" -> [ok |-> TRUE, val |-> default, exc |-> ""]
      [] v.t = "num"    -> [ok |-> TRUE, val |-> v.n, exc |-> ""]
      [] v.t = "str"    ->
            IF v.s # <<>> /\ \A i \in 1..Len(v.s) : IsDigit(v.s[i])
            THEN [ok |-> TRUE, val |-> ParseDigits(v.s, 0), exc |-> ""]
            ELSE [ok |-> FALSE, val |-> 0, exc |-> "ValueError"]

\* -------------------------------------------------------------- requests
NoReq == [route |-> "none"]

RequiredValues == {JAbsent, JStr(<<>>), JStr(<<"x">>)}

ObjectIDValues == {JAbsent, JNum(0), JNum(7)}

RoomsValues == {JAbsent, JStr(<<"3">>), JStr(<<"x">>)}

PageNoValues == {JAbsent, JNum(2), JStr(<<"x">>)}

\* What request.get_json(silent=True) gives: None (no or unparseable JSON),
\* a falsy JSON value, a truthy JSON value that is not an object, an object.
Bodies ==
    {[kind |-> "none"], [kind |-> "falsy"], [kind |-> "array"]} \cup
    {[kind |-> "object", ObjectID |-> a, DescLayerID |-> b, ResultLable |-> c,
      Rooms |-> r, PageNo |-> p] :
        a \in ObjectIDValues, b \in RequiredValues, c \in RequiredValues,
        r \in RoomsValues, p \in PageNoValues}

EmptyObject ==
    [kind |-> "object", ObjectID |-> JAbsent, DescLayerID |-> JAbsent,
     ResultLable |-> JAbsent, Rooms |-> JAbsent, PageNo |-> JAbsent]

HealthReqs == {[route |-> "health"]}

CitiesReqs == {[route |-> "cities", q |-> a] : a \in QArgs}

StreetsReqs ==
    {[route |-> "streets", q |-> a, city_code |-> c] :
        a \in QArgs, c \in CityCodeArgs}

SearchReqs == {[route |-> "search", q |-> a] : a \in QArgs}

DealsReqs == {[route |-> "deals", body |-> b] : b \in Bodies}

\* ---------------------------------------------------- upstream responses
\* A network-level failure (requests.exceptions.RequestException: timeout,
\* connection failure, non-2xx through raise_for_status), a 2xx response
\* whose JSON is not of the shape the handler reads, or a JSON object.
UpError == [kind |-> "error"]

UpMalformed == [kind |-> "malformed"]

\* data.gov.il records: primary and alt are the two column names the handler
\* probes for the name ("" when the column is absent or empty).
Records ==
    {[primary |-> "A", alt |-> "",  code |-> "1"],
     [primary |-> "",  alt |-> "A", code |-> ""],
     [primary |-> "B", alt |-> "A", code |-> "2"],
     [primary |-> "",  alt |-> "",  code |-> "3"]}

GovResponses ==
    {UpError, UpMalformed, [kind |-> "object", present |-> FALSE, records |-> <<>>]}
    \cup {[kind |-> "object", present |-> TRUE, records |-> rs] :
            rs \in SeqsUpTo(Records, MaxRecords)}

SuggestLists == {<<>>, <<"s1">>}

SearchResponses ==
    {UpError, UpMalformed, [kind |-> "object", present |-> FALSE, Results |-> <<>>]}
    \cup {[kind |-> "list", items |-> l] : l \in SuggestLists}
    \cup {[kind |-> "object", present |-> TRUE, Results |-> l] : l \in SuggestLists}

PostResponses ==
    {UpError, UpMalformed,
     [kind |-> "object", present |-> FALSE, AllResults |-> <<>>, TotalCount |-> 0],
     [kind |-> "object", present |-> TRUE, AllResults |-> <<"d1">>, TotalCount |-> 1],
     [kind |-> "object", present |-> TRUE, AllResults |-> <<"d1", "d2">>, TotalCount |-> 2]}

\* ------------------------------------------------------------- responses
NoResp == [status |-> 0, body |-> [none |-> TRUE]]

\* jsonify(body), status
JsonResp(status, body) == [status |-> status, body |-> body]

ErrorBody(text, names) == [error |-> [text |-> text, names |-> names]]

\* An exception that leaves the handler: Flask answers 500.
Uncaught(exc) == [status |-> 500, body |-> [uncaught |-> exc]]

\* ------------------------------------------------------ handler helpers
\* Python's `a or b` on strings.
Or(a, b) == IF a # "" THEN a ELSE b

\* data.get(key, default) on a JSON object that has the key or lacks it.
DictGet(data, key, default) == IF data.present THEN data[key] ELSE default

\* cities(): the loop over records; every record with a name is appended.
RECURSIVE CitiesResults(_)
CitiesResults(rs) ==
    IF rs = <<>> THEN <<>>
    ELSE LET r    == Head(rs)
             name == Or(r.primary, r.alt)
             code == Or(r.code, "")
         IN  (IF name # "" THEN <<[name |-> name, code |-> code]>> ELSE <<>>)
                \o CitiesResults(Tail(rs))

\* streets(): the loop over records with its `seen` set.
RECURSIVE StreetsLoop(_, _, _)
StreetsLoop(rs, seen, results) ==
    IF rs = <<>> THEN results
    ELSE LET name == Or(Head(rs).primary, Head(rs).alt)
         IN  IF name # "" /\ name \notin seen
             THEN StreetsLoop(Tail(rs), seen \cup {name},
                              Append(results, [name |-> name]))
             ELSE StreetsLoop(Tail(rs), seen, results)

StreetsResults(rs) == StreetsLoop(rs, {}, <<>>)

\* The except branch of a handler: jsonify({"error": str(e)}), 502
Caught(exc) == JsonResp(502, ErrorBody(exc, <<>>))

HealthResponseDown == Caught("RequestException")

HealthResponse == JsonResp(200, [status |-> "ok", service |-> "nadlan-proxy"])

EmptyResults == JsonResp(200, [results |-> <<>>])

\* if len(q) < 2
TooShortLax(q) == Len(q) < MinQLen - 1

TooShort(q) == Len(q) < MinQLen

\* cities(): from gov_get's outcome to the response.
CitiesResponse(u) ==
    CASE u.kind = "error"     -> Caught("RequestException")
      [] u.kind = "malformed" -> Caught("AttributeError")
      [] u.kind = "object"    ->
            JsonResp(200, [results |-> CitiesResults(DictGet(u, "records", <<>>))])

\* streets(): from gov_get's outcome to the response.
StreetsResponse(u) ==
    CASE u.kind = "error"     -> Caught("RequestException")
      [] u.kind = "malformed" -> Caught("AttributeError")
      [] u.kind = "object"    ->
            JsonResp(200, [results |-> StreetsResults(DictGet(u, "records", <<>>))])

\* search(): from nadlan_get's outcome to the response.
SearchResponse(u) ==
    CASE u.kind = "error"     -> Caught("RequestException")
      [] u.kind = "malformed" -> Caught("AttributeError")
      [] u.kind = "list"      -> JsonResp(200, [results |-> u.items])
      [] u.kind = "object"    ->
            JsonResp(200, [results |-> DictGet(u, "Results", <<>>)])

MissingQ == JsonResp(400, ErrorBody("Missing query parameter 'q'", <<>>))

\* deals(): request.get_json(silent=True) or {}
GetJson(b) == IF b.kind \in {"none", "falsy"} THEN EmptyObject ELSE b

Required == <<"ObjectID", "DescLayerID", "ResultLable">>

\* deals(): missing = [k for k in required if not body.get(k)]
MissingNone(body) == <<>>

Missing(body) == SelectSeq(Required, LAMBDA k : ~Truthy(body[k]))

MissingFields(missing) == JsonResp(400, ErrorBody("Missing fields", missing))

\* deals(): the payload dictionary; int() of Rooms is evaluated before int()
\* of PageNo, and the first to raise ends the construction.
BuildPayload(body) ==
    LET rooms == PyInt(body.Rooms, 0)
        page  == PyInt(body.PageNo, 1)
    IN  IF ~rooms.ok THEN [ok |-> FALSE, exc |-> rooms.exc, PageNo |-> 0]
        ELSE IF ~page.ok THEN [ok |-> FALSE, exc |-> page.exc, PageNo |-> 0]
        ELSE [ok |-> TRUE, exc |-> "",
              MoreAssestsType      |-> 0,
              FillterRoomNum       |-> rooms.val,
              ResultLable          |-> body.ResultLable,
              ResultType           |-> 1,
              ObjectID             |-> body.ObjectID,
              DescLayerID          |-> body.DescLayerID,
              OriginalSearchString |-> body.ResultLable,
              CurrentLavel         |-> 3,
              isHistorical         |-> FALSE,
              PageNo               |-> page.val,
              OrderByFilled        |-> "DEALDATETIME",
              OrderByDescending    |-> TRUE]

\* nadlan_post: for attempt in range(retries)
InRangeOffByOne(a, n) == a <= n

InRange(a, n) == a < n

\* nadlan_post: if attempt < retries - 1
SleepsAfter(a) == a < Retries - 1

\* nadlan_post: time.sleep(1.5 * (attempt + 1))
BackoffFlat(a) == BackoffMs

Backoff(a) == BackoffMs * (a + 1)

\* nadlan_post: raise RuntimeError(f"All {retries} attempts to nadlan failed")
AllAttemptsFailed == Caught("All 3 attempts to nadlan failed")

\* deals(): from nadlan_post's returned JSON to the response.
DealsResponse(u, pageNo) ==
    CASE u.kind = "malformed" -> Caught("AttributeError")
      [] u.kind = "object"    ->
            JsonResp(200, [deals      |-> DictGet(u, "AllResults", <<>>),
                           totalCount |-> DictGet(u, "TotalCount", 0),
                           pageNo     |-> pageNo])

\* deals(): everything before the upstream call. Either the response the
\* handler ends with, or the go-ahead to call nadlan_post.
DealsValidate(b) ==
    LET body == GetJson(b)
    IN  IF body.kind # "object"
        THEN [go |-> FALSE, resp |-> Uncaught("AttributeError")]
        ELSE IF Missing(body) # <<>>
        THEN [go |-> FALSE, resp |-> MissingFields(Missing(body))]
        ELSE IF ~BuildPayload(body).ok
        THEN [go |-> FALSE, resp |-> Uncaught(BuildPayload(body).exc)]
        ELSE [go |-> TRUE, resp |-> NoResp]

\* payload["PageNo"]
PageNoOf(r) == BuildPayload(GetJson(r.body)).PageNo

\* ---------------------------------------------------------------- state
Init ==
    /\ pc      = [t \in Threads |-> "idle"]
    /\ req     = [t \in Threads |-> NoReq]
    /\ attempt = [t \in Threads |-> 0]
    /\ calls   = [t \in Threads |-> <<>>]
    /\ slept   = [t \in Threads |-> <<>>]
    /\ resp    = [t \in Threads |-> NoResp]
    /\ session = HEADERS

\* The handler of thread t returns response r.
Return(t, r) ==
    /\ resp' = [resp EXCEPT ![t] = r]
    /\ pc'   = [pc EXCEPT ![t] = "done"]

\* The handler of thread t blocks in an upstream call.
Block(t, where) ==
    /\ pc' = [pc EXCEPT ![t] = where]
    /\ UNCHANGED resp

\* nadlan_post's loop variable is a local of the call.
SharedAttempt(t) == attempt[CHOOSE u \in Threads : \A w \in Threads : u <= w]

LocalAttempt(t) == attempt[t]

\* ---------------------------------------------------------------- health
Health(t) ==
    /\ pc[t] = "idle"
    /\ req' = [req EXCEPT ![t] = [route |-> "health"]]
    /\ Return(t, HealthResponse)
    /\ UNCHANGED <<attempt, calls, slept, session>>

\* ---------------------------------------------------------------- cities
\* cities() up to the gov_get call.
CitiesBegin(t) ==
    /\ pc[t] = "idle"
    /\ \E r \in CitiesReqs :
        /\ req' = [req EXCEPT ![t] = r]
        /\ LET q == Strip(ArgsGet(r.q, <<>>))
           IN  IF TooShort(q) THEN Return(t, EmptyResults)
               ELSE Block(t, "cities_gov_get")
    /\ UNCHANGED <<attempt, calls, slept, session>>

\* gov_get returns or raises, and cities() runs to its end.
CitiesGovGet(t) ==
    /\ pc[t] = "cities_gov_get"
    /\ \E u \in GovResponses :
        /\ calls' = [calls EXCEPT ![t] = Append(@, u)]
        /\ Return(t, CitiesResponse(u))
    /\ UNCHANGED <<req, attempt, slept, session>>

\* --------------------------------------------------------------- streets
StreetsBegin(t) ==
    /\ pc[t] = "idle"
    /\ \E r \in StreetsReqs :
        /\ req' = [req EXCEPT ![t] = r]
        /\ LET q == Strip(ArgsGet(r.q, <<>>))
           IN  IF TooShort(q) THEN Return(t, EmptyResults)
               ELSE Block(t, "streets_gov_get")
    /\ UNCHANGED <<attempt, calls, slept, session>>

StreetsGovGet(t) ==
    /\ pc[t] = "streets_gov_get"
    /\ \E u \in GovResponses :
        /\ calls' = [calls EXCEPT ![t] = Append(@, u)]
        /\ Return(t, StreetsResponse(u))
    /\ UNCHANGED <<req, attempt, slept, session>>

\* ---------------------------------------------------------------- search
SearchBegin(t) ==
    /\ pc[t] = "idle"
    /\ \E r \in SearchReqs :
        /\ req' = [req EXCEPT ![t] = r]
        /\ LET q == Strip(ArgsGet(r.q, <<>>))
           IN  IF q = <<>> THEN Return(t, MissingQ)
               ELSE Block(t, "search_nadlan_get")
    /\ UNCHANGED <<attempt, calls, slept, session>>

\* A variant of the call that tries again after a failure.
SearchNadlanGetRetrying(t) ==
    /\ pc[t] = "search_nadlan_get"
    /\ \E u \in SearchResponses :
        /\ calls' = [calls EXCEPT ![t] = Append(@, u)]
        /\ IF u.kind = "error" /\ Len(calls[t]) < Retries - 1
           THEN UNCHANGED <<pc, resp>>
           ELSE Return(t, SearchResponse(u))
    /\ UNCHANGED <<req, attempt, slept, session>>

\* nadlan_get returns or raises, and search() runs to its end.
SearchNadlanGet(t) ==
    /\ pc[t] = "search_nadlan_get"
    /\ \E u \in SearchResponses :
        /\ calls' = [calls EXCEPT ![t] = Append(@, u)]
        /\ Return(t, SearchResponse(u))
    /\ UNCHANGED <<req, attempt, slept, session>>

\* ----------------------------------------------------------------- deals
\* deals() up to the nadlan_post call: body, validation, payload.
DealsBegin(t) ==
    /\ pc[t] = "idle"
    /\ \E r \in DealsReqs :
        /\ req' = [req EXCEPT ![t] = r]
        /\ LET v == DealsValidate(r.body)
           IN  IF v.go THEN Block(t, "deals_nadlan_post")
               ELSE Return(t, v.resp)
    /\ UNCHANGED <<attempt, calls, slept, session>>

\* One iteration of nadlan_post's loop: SESSION.post returns or raises. On a
\* failure the thread sleeps and stays in the loop, or the loop ends and the
\* RuntimeError reaches deals(); on a 2xx deals() runs to its end.
DealsNadlanPost(t) ==
    /\ pc[t] = "deals_nadlan_post"
    /\ LET a == LocalAttempt(t)
       IN  \E u \in PostResponses :
            /\ calls' = [calls EXCEPT ![t] = Append(@, u)]
            /\ IF u.kind = "error"
               THEN /\ slept' = [slept EXCEPT ![t] =
                                   IF SleepsAfter(a) THEN Append(@, Backoff(a)) ELSE @]
                    /\ attempt' = [attempt EXCEPT ![t] = a + 1]
                    /\ IF InRange(a + 1, Retries)
                       THEN UNCHANGED <<pc, resp>>
                       ELSE Return(t, AllAttemptsFailed)
               ELSE /\ Return(t, DealsResponse(u, PageNoOf(req[t])))
                    /\ UNCHANGED <<slept, attempt>>
    /\ UNCHANGED <<req, session>>

\* ----------------------------------------------------------------- server
\* The response is sent and the thread is free for the next request.
Reply(t) ==
    /\ pc[t] = "done"
    /\ pc'      = [pc EXCEPT ![t] = "idle"]
    /\ req'     = [req EXCEPT ![t] = NoReq]
    /\ attempt' = [attempt EXCEPT ![t] = 0]
    /\ calls'   = [calls EXCEPT ![t] = <<>>]
    /\ slept'   = [slept EXCEPT ![t] = <<>>]
    /\ resp'    = [resp EXCEPT ![t] = NoResp]
    /\ UNCHANGED session

\* A request is routed to its handler.
Accept(t) ==
    \/ Health(t)
    \/ CitiesBegin(t)
    \/ StreetsBegin(t)
    \/ SearchBegin(t)
    \/ DealsBegin(t)

\* A handler goes on from its upstream call, or its response is sent.
Continue(t) ==
    \/ CitiesGovGet(t)
    \/ StreetsGovGet(t)
    \/ SearchNadlanGet(t)
    \/ DealsNadlanPost(t)
    \/ Reply(t)

AllIdle == \A t \in Threads : pc[t] = "idle"

\* Requests handled one at a time: a request is accepted when no other is
\* being handled.
Next ==
    \E t \in Threads :
        \/ AllIdle /\ Health(t)
        \/ AllIdle /\ CitiesBegin(t)
        \/ AllIdle /\ StreetsBegin(t)
        \/ AllIdle /\ SearchBegin(t)
        \/ AllIdle /\ DealsBegin(t)
        \/ Continue(t)

Spec == Init /\ [][Next]_vars

\* app.run(): requests handled by concurrent threads.
NextThreaded == \E t \in Threads : Accept(t) \/ Continue(t)

SpecThreaded == Init /\ [][NextThreaded]_vars

\* ------------------------------------------- a request handled on its own
\* nadlan_post run against the upstream responses in log, from attempt a on:
\* what it returns or raises, and how many of the responses it consumed.
RECURSIVE PostAlone(_, _)
PostAlone(log, a) ==
    IF ~(a < Retries) THEN [end |-> "raised", data |-> UpError, used |-> a]
    ELSE IF Len(log) <= a THEN [end |-> "pending", data |-> UpError, used |-> Len(log)]
    ELSE IF log[a + 1].kind = "error" THEN PostAlone(log, a + 1)
    ELSE [end |-> "returned", data |-> log[a + 1], used |-> a + 1]

Pending(n) == [resp |-> NoResp, used |-> n]

\* The handler of request r run from start to end with nothing else going on,
\* its upstream calls answered by log in order.
RunAlone(r, log) ==
    CASE r.route = "health" -> [resp |-> HealthResponse, used |-> 0]
      [] r.route = "cities" ->
            IF Len(Strip(ArgsGet(r.q, <<>>))) < MinQLen
            THEN [resp |-> EmptyResults, used |-> 0]
            ELSE IF log = <<>> THEN Pending(0)
            ELSE [resp |-> CitiesResponse(log[1]), used |-> 1]
      [] r.route = "streets" ->
            IF Len(Strip(ArgsGet(r.q, <<>>))) < MinQLen
            THEN [resp |-> EmptyResults, used |-> 0]
            ELSE IF log = <<>> THEN Pending(0)
            ELSE [resp |-> StreetsResponse(log[1]), used |-> 1]
      [] r.route = "search" ->
            IF Strip(ArgsGet(r.q, <<>>)) = <<>>
            THEN [resp |-> MissingQ, used |-> 0]
            ELSE IF log = <<>> THEN Pending(0)
            ELSE [resp |-> SearchResponse(log[1]), used |-> 1]
      [] r.route = "deals" ->
            IF ~DealsValidate(r.body).go
            THEN [resp |-> DealsValidate(r.body).resp, used |-> 0]
            ELSE LET p == PostAlone(log, 0)
                 IN  CASE p.end = "pending"  -> Pending(p.used)
                       [] p.end = "raised"   ->
                            [resp |-> AllAttemptsFailed, used |-> p.used]
                       [] p.end = "returned" ->
                            [resp |-> DealsResponse(p.data, PageNoOf(r)),
                             used |-> p.used]

\* ---------------------------------------------------------------- claims
Done(t) == pc[t] = "done"

RECURSIVE SumSeq(_)
SumSeq(s) == IF s = <<>> THEN 0 ELSE Head(s) + SumSeq(Tail(s))

\* Upstream call k is the first that succeeds; calls 1..k-1 failed.
FirstSuccessAt(log, k) ==
    /\ k \in 1..Len(log)
    /\ log[k].kind = "object"
    /\ \A j \in 1..(k - 1) : log[j].kind = "error"

AllFailed(log) == \A j \in 1..Len(log) : log[j].kind = "error"

\* C1: POST /deals with valid fields whose upstream POST fails on attempts
\* 1..k-1 and succeeds on attempt k (k in 1..3) makes exactly k upstream
\* POSTs, answers 200 with attempt k's result and no error field, and waits
\* 1.5 x j seconds before attempt j+1; two failures then a success wait at
\* least 1.5 + 3.0 seconds in total.
C1_RetryThenSuccess ==
    \A t \in Threads : \A k \in 1..3 :
        (req[t].route = "deals" /\ FirstSuccessAt(calls[t], k)) =>
            /\ Done(t)
            /\ Len(calls[t]) = k
            /\ resp[t].status = 200
            /\ "error" \notin DOMAIN resp[t].body
            /\ resp[t].body.deals =
                 (IF calls[t][k].present THEN calls[t][k].AllResults ELSE <<>>)
            /\ resp[t].body.totalCount =
                 (IF calls[t][k].present THEN calls[t][k].TotalCount ELSE 0)
            /\ Len(slept[t]) = k - 1
            /\ \A j \in 1..(k - 1) : slept[t][j] = 1500 * j
            /\ (k = 3 => SumSeq(slept[t]) >= 1500 + 3000)

C1_Witness ==
    \E t \in Threads :
        /\ Done(t)
        /\ req[t].route = "deals"
        /\ FirstSuccessAt(calls[t], 3)
        /\ resp[t].status = 200
        /\ slept[t] = <<1500, 3000>>

\* C2: POST /deals with valid fields whose every upstream POST fails makes
\* exactly 3 upstream POSTs, never a 4th, and answers 502 with the error
\* "all attempts failed".
C2_ExhaustedRetries ==
    \A t \in Threads :
        req[t].route = "deals" =>
            /\ Len(calls[t]) <= 3
            /\ (Len(calls[t]) = 3 /\ AllFailed(calls[t])) =>
                    /\ Done(t)
                    /\ resp[t].status = 502
                    /\ resp[t].body.error.text = "All 3 attempts to nadlan failed"
            /\ (Done(t) /\ calls[t] # <<>> /\ AllFailed(calls[t])) =>
                    Len(calls[t]) = 3

C2_Witness ==
    \E t \in Threads :
        /\ Done(t)
        /\ req[t].route = "deals"
        /\ Len(calls[t]) = 3
        /\ AllFailed(calls[t])
        /\ resp[t].status = 502

\* C3: a request to /cities or /streets whose q is shorter than 2
\* characters, or absent, is answered 200 {"results": []} with no upstream
\* call.
C3_ShortQuery ==
    \A t \in Threads :
        (/\ req[t].route \in {"cities", "streets"}
         /\ Len(ArgsGet(req[t].q, <<>>)) < 2) =>
            /\ Done(t)
            /\ resp[t] = [status |-> 200, body |-> [results |-> <<>>]]
            /\ calls[t] = <<>>

C3_Witness ==
    \E t \in Threads :
        /\ Done(t)
        /\ req[t].route = "cities"
        /\ req[t].q = Arg(<<"a">>)
        /\ resp[t].status = 200

\* The names a data.gov.il response carries, in record order.
RECURSIVE RecordNames(_)
RecordNames(rs) ==
    IF rs = <<>> THEN <<>>
    ELSE (IF Head(rs).primary # "" THEN <<Head(rs).primary>>
          ELSE IF Head(rs).alt # "" THEN <<Head(rs).alt>>
          ELSE <<>>) \o RecordNames(Tail(rs))

\* names with every occurrence but the first of each name removed.
RECURSIVE FirstSeenUpTo(_, _)
FirstSeenUpTo(names, n) ==
    IF n = 0 THEN <<>>
    ELSE FirstSeenUpTo(names, n - 1) \o
         (IF \E j \in 1..(n - 1) : names[j] = names[n] THEN <<>> ELSE <<names[n]>>)

FirstSeen(names) == FirstSeenUpTo(names, Len(names))

ResultNames(r) == [i \in 1..Len(r.body.results) |-> r.body.results[i].name]

AnsweredFromRecords(t, routes) ==
    /\ Done(t)
    /\ req[t].route \in routes
    /\ calls[t] # <<>>
    /\ calls[t][1].kind = "object"

DistinctInFirstSeenOrder(t) ==
    /\ resp[t].status = 200
    /\ ResultNames(resp[t]) =
         FirstSeen(RecordNames(IF calls[t][1].present
                               THEN calls[t][1].records ELSE <<>>))

\* C4: for every successful upstream response to /cities or /streets, the
\* results hold each distinct name at most once, in the order of first
\* occurrence in the upstream records.
C4_DistinctNames ==
    \A t \in Threads :
        AnsweredFromRecords(t, {"cities", "streets"}) => DistinctInFirstSeenOrder(t)

\* The same for /streets alone, where the handler keeps a `seen` set.
C4_StreetsDistinctNames ==
    \A t \in Threads :
        AnsweredFromRecords(t, {"streets"}) => DistinctInFirstSeenOrder(t)

\* The value of required field k in the request body of POST /deals.
BodyField(b, k) == IF b.kind = "object" THEN b[k] ELSE JAbsent

AbsentOrFalsy(b, k) == ~Truthy(BodyField(b, k))

RequiredSet == {Required[i] : i \in 1..Len(Required)}

MissingSet(b) == {k \in RequiredSet : AbsentOrFalsy(b, k)}

NamedSet(r) == {r.body.error.names[i] : i \in 1..Len(r.body.error.names)}

\* C5: every POST /deals request in which one of ObjectID, DescLayerID,
\* ResultLable is absent or falsy is answered 400, and the error names
\* exactly the missing fields.
C5_MissingFields ==
    \A t \in Threads :
        (Done(t) /\ req[t].route = "deals" /\ MissingSet(req[t].body) # {}) =>
            /\ resp[t].status = 400
            /\ NamedSet(resp[t]) = MissingSet(req[t].body)

\* The same for requests whose body is a JSON object, or no JSON, or a falsy
\* JSON value.
C5_MissingFieldsOfObjects ==
    \A t \in Threads :
        (/\ Done(t)
         /\ req[t].route = "deals"
         /\ req[t].body.kind # "array"
         /\ MissingSet(req[t].body) # {}) =>
            /\ resp[t].status = 400
            /\ NamedSet(resp[t]) = MissingSet(req[t].body)

\* C6: any exception raised while handling a request is caught in the
\* handler and answered 502 {"error": message}; every response status is
\* one of 200, 400, 502.
C6_NoUncaughtException ==
    \A t \in Threads :
        Done(t) =>
            /\ resp[t].status \in {200, 400, 502}
            /\ resp[t].status = 502 => "error" \in DOMAIN resp[t].body

\* The same for POST /deals with valid required fields and a non-numeric
\* Rooms or PageNo alone.
C6_NonNumericCaught ==
    \A t \in Threads :
        (/\ Done(t)
         /\ req[t].route = "deals"
         /\ req[t].body.kind = "object"
         /\ MissingSet(req[t].body) = {}
         /\ ~BuildPayload(req[t].body).ok) =>
            resp[t].status = 502

\* C7: GET /health answers 200 with status "ok" and makes no upstream call,
\* whatever the upstream does and whatever other requests are in flight.
C7_HealthAlwaysOk ==
    \A t \in Threads :
        req[t].route = "health" =>
            /\ Done(t)
            /\ resp[t].status = 200
            /\ resp[t].body.status = "ok"
            /\ calls[t] = <<>>

C7_Witness ==
    \E t \in Threads : \E u \in Threads \ {t} :
        /\ Done(t)
        /\ req[t].route = "health"
        /\ resp[t].status = 200
        /\ pc[u] = "deals_nadlan_post"
        /\ calls[u] = <<UpError, UpError>>

WhitespaceOnly(s) == \A i \in 1..Len(s) : s[i] = " "

\* C8: a request that fails validation is never forwarded: whenever
\* GET /search or POST /deals answers 400 no upstream call was made, and a
\* /search with empty or whitespace-only q or a /deals missing a required
\* field makes none.
C8_ValidationNotForwarded ==
    \A t \in Threads :
        /\ (Done(t) /\ req[t].route \in {"search", "deals"} /\ resp[t].status = 400)
                => calls[t] = <<>>
        /\ (req[t].route = "search" /\ WhitespaceOnly(ArgsGet(req[t].q, <<>>)))
                => (Done(t) /\ resp[t].status = 400 /\ calls[t] = <<>>)
        /\ (req[t].route = "deals" /\ MissingSet(req[t].body) # {})
                => (Done(t) /\ calls[t] = <<>>)

C8_Witness ==
    \E t \in Threads :
        /\ Done(t)
        /\ req[t].route = "deals"
        /\ req[t].body.kind = "object"
        /\ MissingSet(req[t].body) = {"DescLayerID"}
        /\ resp[t].status = 400
        /\ calls[t] = <<>>

\* C9: upstream GET calls are never retried: /search, /cities or /streets
\* whose upstream GET fails answers 502 after exactly one upstream call.
C9_GetNotRetried ==
    \A t \in Threads :
        req[t].route \in {"search", "cities", "streets"} =>
            /\ Len(calls[t]) <= 1
            /\ (calls[t] # <<>> /\ calls[t][1].kind = "error") =>
                    /\ Done(t)
                    /\ Len(calls[t]) = 1
                    /\ resp[t].status = 502

C9_Witness ==
    \E t \in Threads :
        /\ Done(t)
        /\ req[t].route = "search"
        /\ calls[t] = <<UpError>>
        /\ resp[t].status = 502

\* C10: no handler changes the session's headers, and under any
\* interleaving of concurrently handled requests each response is the one
\* the request gets when handled alone with the same upstream responses.
C10_Stateless ==
    /\ session = HEADERS
    /\ \A t \in Threads :
        Done(t) =>
            /\ resp[t] = RunAlone(req[t], calls[t]).resp
            /\ Len(calls[t]) = RunAlone(req[t], calls[t]).used

C10_Witness ==
    \E t \in Threads : \E u \in Threads \ {t} :
        /\ Done(t)
        /\ req[t].route = "deals"
        /\ Len(calls[t]) = 2
        /\ resp[t].status = 200
        /\ Done(u)
        /\ req[u] = req[t]
        /\ Len(calls[u]) = 3
        /\ resp[u].status = 502
====
